---- MODULE Spec2Model ----
(***************************************************************************)
(* A model of src/modules/Expectation.js: the Expectation wrapper, its     *)
(* chainable predicate methods, the invocation context used by the throw   *)
(* assertions, and the alias table bound at module load.                   *)
(*                                                                         *)
(* JavaScript values are records [k, n, xs, cs]:                           *)
(*   k  the kind of value ("undefined", "null", "boolean", "number",       *)
(*      "NaN", "string", "array", "object", "regexp", "function", "spy",   *)
(*      and "absent" for a property that was never written);               *)
(*   n  the number, the truth value (0/1), or the identity of a reference; *)
(*   xs the elements of an array or the values of an object;               *)
(*   cs the characters of a string, the source of a regexp, or the keys    *)
(*      of an object.                                                      *)
(***************************************************************************)
EXTENDS Integers, Sequences, FiniteSets

VARIABLES
    actual,    \* this.actual: the subject
    context,   \* this.context (Absent when the constructor did not create it)
    args,      \* this.args (Absent, or an array value)
    calls,     \* the call record of the spy subject: a sequence of argument lists
    invoked,   \* how many times the subject was invoked by this wrapper
    asserted,  \* how many throw-assertions ran on a callable subject
    last       \* the latest method call: its name, inputs, and what it raised or returned

vars == <<actual, context, args, calls, invoked, asserted, last>>

\* ---------------------------------------------------------------- bounds

MaxArgs == 2
MaxInvocations == 2

\* ---------------------------------------------------------------- values

Val(k, n, xs, cs) == [k |-> k, n |-> n, xs |-> xs, cs |-> cs]

Absent == Val("absent", 0, <<>>, <<>>)
Undefined == Val("undefined", 0, <<>>, <<>>)
Null == Val("null", 0, <<>>, <<>>)
Bool(b) == Val("boolean", IF b THEN 1 ELSE 0, <<>>, <<>>)
Num(i) == Val("number", i, <<>>, <<>>)
NaN == Val("NaN", 0, <<>>, <<>>)
Str(cs) == Val("string", 0, <<>>, cs)
Arr(id, xs) == Val("array", id, xs, <<>>)
Obj(id, keys, vals) == Val("object", id, vals, keys)
RegExp(id, cs) == Val("regexp", id, <<>>, cs)
Fn(id) == Val("function", id, <<>>, <<>>)
Spy(id) == Val("spy", id, <<>>, <<>>)

\* The functions of the model, by what a call of them does.
FnBoom == Fn(2)        \* always throws new Error("ab")
FnArgs == Fn(3)        \* throws new Error("ab") when called with at least one argument
ObjectCtor == Fn(4)    \* the Object constructor: returns normally
TheSpy == Spy(5)       \* a spy: records the call, returns normally

ErrorMessage == <<"a", "b">>

TypeOf(v) ==
    CASE v.k = "NaN" -> "number"
      [] v.k \in {"null", "array", "regexp"} -> "object"
      [] v.k = "spy" -> "function"
      [] v.k = "absent" -> "undefined"
      [] OTHER -> v.k

Truthy(v) ==
    /\ v.k \notin {"undefined", "null", "NaN", "absent"}
    /\ (v.k = "boolean" => v.n = 1)
    /\ (v.k = "number" => v.n # 0)
    /\ (v.k = "string" => v.cs # <<>>)

IsReference(v) == v.k \in {"array", "object", "regexp", "function", "spy"}

\* a === b
StrictEq(a, b) ==
    /\ a.k # "NaN"
    /\ a.k = b.k
    /\ a.n = b.n
    /\ (a.k = "string" => a.cs = b.cs)

Keys(o) == {o.cs[i] : i \in 1..Len(o.cs)}
Get(o, key) == o.xs[CHOOSE i \in 1..Len(o.cs) : o.cs[i] = key]

RECURSIVE isEqual(_, _)
\* is-equal: structural equality; NaN equals NaN, key order is irrelevant.
isEqual(a, b) ==
    IF a.k # b.k THEN FALSE
    ELSE CASE a.k = "array" ->
                /\ Len(a.xs) = Len(b.xs)
                /\ \A i \in 1..Len(a.xs) : isEqual(a.xs[i], b.xs[i])
           [] a.k = "object" ->
                /\ Keys(a) = Keys(b)
                /\ \A key \in Keys(a) : isEqual(Get(a, key), Get(b, key))
           [] a.k \in {"regexp", "string"} -> a.cs = b.cs
           [] OTHER -> a.n = b.n

isFunction(v) == TypeOf(v) = "function"
isArray(v) == v.k = "array"
isObject(v) == Truthy(v) /\ ~isArray(v) /\ TypeOf(v) = "object"
isSpy(v) == v.k = "spy"
isRegExp(v) == v.k = "regexp"

\* x instanceof ctor, for the constructors of the model.
InstanceOf(x, ctor) == ctor = ObjectCtor /\ IsReference(x)

\* The characters of the words the model needs as JavaScript strings.
Chars(word) ==
    CASE word = "undefined" -> <<"u", "n", "d", "e", "f", "i", "n", "e", "d">>
      [] word = "object" -> <<"o", "b", "j", "e", "c", "t">>
      [] word = "boolean" -> <<"b", "o", "o", "l", "e", "a", "n">>
      [] word = "number" -> <<"n", "u", "m", "b", "e", "r">>
      [] word = "string" -> <<"s", "t", "r", "i", "n", "g">>
      [] word = "function" -> <<"f", "u", "n", "c", "t", "i", "o", "n">>
      [] word = "array" -> <<"a", "r", "r", "a", "y">>
      [] word = "null" -> <<"n", "u", "l", "l">>
      [] word = "true" -> <<"t", "r", "u", "e">>
      [] word = "false" -> <<"f", "a", "l", "s", "e">>
      [] word = "NaN" -> <<"N", "a", "N">>
      [] word = "an error" -> <<"a", "n", " ", "e", "r", "r", "o", "r">>
      [] word = "[object Object]" ->
            <<"[", "o", "b", "j", "e", "c", "t", " ", "O", "b", "j", "e", "c", "t", "]">>

Digit(i) == <<"0", "1", "2", "3", "4", "5", "6", "7", "8", "9">>[i + 1]

RECURSIVE ToStr(_)
RECURSIVE Join(_)
\* Array.prototype.join(","): undefined and null elements print as nothing.
Join(xs) ==
    IF xs = <<>> THEN <<>>
    ELSE LET head == IF xs[1].k \in {"undefined", "null"} THEN <<>> ELSE ToStr(xs[1])
         IN  IF Len(xs) = 1 THEN head ELSE head \o <<",">> \o Join(Tail(xs))

\* String(v), for the values of the model (numbers are single digits).
ToStr(v) ==
    CASE v.k = "string" -> v.cs
      [] v.k = "number" -> <<Digit(v.n)>>
      [] v.k = "boolean" -> IF v.n = 1 THEN Chars("true") ELSE Chars("false")
      [] v.k = "array" -> Join(v.xs)
      [] v.k = "regexp" -> <<"/">> \o v.cs \o <<"/">>
      [] v.k = "object" -> Chars("[object Object]")
      [] v.k \in {"function", "spy"} -> Chars("function")
      [] v.k = "absent" -> Chars("undefined")
      [] OTHER -> Chars(v.k)

\* haystack.indexOf(needle) !== -1
IndexOf(haystack, needle) ==
    \E i \in 0..(Len(haystack) - Len(needle)) :
        \A j \in 1..Len(needle) : haystack[i + j] = needle[j]

\* pattern.test(string), for a pattern that is a literal.
Test(pattern, string) == IndexOf(string.cs, pattern.cs)

isA(object, value) ==
    IF isFunction(value) THEN InstanceOf(object, value)
    ELSE IF value = Str(Chars("array")) THEN isArray(object)
    ELSE value.k = "string" /\ Chars(TypeOf(object)) = value.cs

\* The comparators a caller may pass to toInclude and toExclude.
Compare(compareValues, a, b) ==
    CASE compareValues = "isEqual" -> isEqual(a, b)
      [] compareValues = "strict" -> StrictEq(a, b)
      [] compareValues = "never" -> FALSE

arrayContains(array, value, compareValues) ==
    \/ \E i \in 1..Len(array.xs) : Compare(compareValues, array.xs[i], value)
    \/ /\ isArray(value)
       /\ \A j \in 1..Len(value.xs) :
             \E i \in 1..Len(array.xs) : Compare(compareValues, array.xs[i], value.xs[j])

objectContains(object, value, compareValues) ==
    /\ isObject(value)
    /\ value.k = "object"
    /\ \A key \in Keys(value) :
          /\ object.k = "object"
          /\ key \in Keys(object)
          /\ Compare(compareValues, Get(object, key), Get(value, key))

stringContains(string, value) == IndexOf(string.cs, ToStr(value))

\* ---------------------------------------------------------------- failures

\* What a call raised: nothing, or an Error with the message assert() formats
\* from a template and values, and the properties a catch block added to it.
NoError ==
    [raised |-> FALSE, tpl |-> "", vals |-> <<>>,
     showDiff |-> FALSE, actual |-> Absent, expected |-> Absent]

\* assert(condition, messageFormat, ...extraArgs)
assert(condition, messageFormat, extraArgs) ==
    IF condition THEN NoError
    ELSE [raised |-> TRUE, tpl |-> messageFormat, vals |-> extraArgs,
          showDiff |-> FALSE, actual |-> Absent, expected |-> Absent]

\* Two statements in sequence: the second runs only when the first did not throw.
Then(first, second) == IF first.raised THEN first ELSE second

\* message || fallback: an omitted message is the empty string here.
Or(message, fallback) == IF message = "" THEN fallback ELSE message

\* value || 'an error'
OrAnError(value) == IF Truthy(value) THEN value ELSE Str(Chars("an error"))

\* ---------------------------------------------------------------- predicates
\* Each operator is what the method raises on this.actual: NoError when it
\* reaches its return statement.

toExist(message) ==
    assert(Truthy(actual), Or(message, "Expected %s to exist"), <<actual>>)

toNotExist(message) ==
    assert(~Truthy(actual), Or(message, "Expected %s to not exist"), <<actual>>)

toBe(value, message) ==
    assert(StrictEq(actual, value), Or(message, "Expected %s to be %s"), <<actual, value>>)

\* toNotBe written with the comparator: it compares by value.
toNotBeByValue(value, message) ==
    assert(~isEqual(actual, value), Or(message, "Expected %s to not be %s"),
           <<actual, value>>)

toNotBe(value, message) ==
    assert(~StrictEq(actual, value), Or(message, "Expected %s to not be %s"),
           <<actual, value>>)

\* toEqual without its catch block.
toEqualWithoutDiff(value, message) ==
    assert(isEqual(actual, value), Or(message, "Expected %s to equal %s"),
           <<actual, value>>)

toEqual(value, message) ==
    LET e == assert(isEqual(actual, value), Or(message, "Expected %s to equal %s"),
                    <<actual, value>>)
    IN  IF e.raised
        THEN [e EXCEPT !.showDiff = TRUE, !.actual = actual, !.expected = value]
        ELSE e

toNotEqual(value, message) ==
    assert(~isEqual(actual, value), Or(message, "Expected %s to not equal %s"),
           <<actual, value>>)

toBeA(value, message) ==
    Then(assert(isFunction(value) \/ TypeOf(value) = "string",
                "The \"value\" argument in toBeA(value) must be a function or a string",
                <<>>),
         assert(isA(actual, value), Or(message, "Expected %s to be a %s"),
                <<actual, value>>))

toNotBeA(value, message) ==
    Then(assert(isFunction(value) \/ TypeOf(value) = "string",
                "The \"value\" argument in toNotBeA(value) must be a function or a string",
                <<>>),
         assert(~isA(actual, value), Or(message, "Expected %s to be a %s"),
                <<actual, value>>))

toMatch(pattern, message) ==
    Then(assert(TypeOf(actual) = "string",
                "The \"actual\" argument in expect(actual).toMatch() must be a string",
                <<>>),
    Then(assert(isRegExp(pattern),
                "The \"value\" argument in toMatch(value) must be a RegExp", <<>>),
         assert(Test(pattern, actual), Or(message, "Expected %s to match %s"),
                <<actual, pattern>>)))

toNotMatch(pattern, message) ==
    Then(assert(TypeOf(actual) = "string",
                "The \"actual\" argument in expect(actual).toNotMatch() must be a string",
                <<>>),
    Then(assert(isRegExp(pattern),
                "The \"value\" argument in toNotMatch(value) must be a RegExp", <<>>),
         assert(~Test(pattern, actual), Or(message, "Expected %s to not match %s"),
                <<actual, pattern>>)))

\* a < b and a <= b on numbers; a comparison with NaN is false.  The code
\* compares only after both typeof checks passed.
Less(a, b) == a.k = "number" /\ b.k = "number" /\ a.n < b.n
LessOrEqual(a, b) == a.k = "number" /\ b.k = "number" /\ a.n <= b.n

\* toBeLessThan without the check of its argument.
toBeLessThanUnchecked(value, message) ==
    Then(assert(TypeOf(actual) = "number",
                "The \"actual\" argument in expect(actual).toBeLessThan() must be a number",
                <<>>),
         assert(Less(actual, value), Or(message, "Expected %s to be less than %s"),
                <<actual, value>>))

toBeLessThan(value, message) ==
    Then(assert(TypeOf(actual) = "number",
                "The \"actual\" argument in expect(actual).toBeLessThan() must be a number",
                <<>>),
    Then(assert(TypeOf(value) = "number",
                "The \"value\" argument in toBeLessThan(value) must be a number", <<>>),
         assert(Less(actual, value), Or(message, "Expected %s to be less than %s"),
                <<actual, value>>)))

toBeLessThanOrEqualTo(value, message) ==
    Then(assert(TypeOf(actual) = "number",
                "The \"actual\" argument in expect(actual).toBeLessThanOrEqualTo() must be a number",
                <<>>),
    Then(assert(TypeOf(value) = "number",
                "The \"value\" argument in toBeLessThanOrEqualTo(value) must be a number",
                <<>>),
         assert(LessOrEqual(actual, value),
                Or(message, "Expected %s to be less than or equal to %s"),
                <<actual, value>>)))

toBeGreaterThan(value, message) ==
    Then(assert(TypeOf(actual) = "number",
                "The \"actual\" argument in expect(actual).toBeGreaterThan() must be a number",
                <<>>),
    Then(assert(TypeOf(value) = "number",
                "The \"value\" argument in toBeGreaterThan(value) must be a number", <<>>),
         assert(Less(value, actual), Or(message, "Expected %s to be greater than %s"),
                <<actual, value>>)))

toBeGreaterThanOrEqualTo(value, message) ==
    Then(assert(TypeOf(actual) = "number",
                "The \"actual\" argument in expect(actual).toBeGreaterThanOrEqualTo() must be a number",
                <<>>),
    Then(assert(TypeOf(value) = "number",
                "The \"value\" argument in toBeGreaterThanOrEqualTo(value) must be a number",
                <<>>),
         assert(LessOrEqual(value, actual),
                Or(message, "Expected %s to be greater than or equal to %s"),
                <<actual, value>>)))

\* The compareValues argument of toInclude and toExclude: omitted (or null),
\* a string (then it is the message), or a comparator function.
Omitted == [k |-> "omitted", s |-> ""]
AsMessage(text) == [k |-> "string", s |-> text]
Comparator(name) == [k |-> "function", s |-> name]

\* The containment boolean both toInclude and toExclude compute.
Contains(value, compareValues) ==
    LET compare == IF compareValues.k = "function" THEN compareValues.s ELSE "isEqual"
    IN  IF isArray(actual) THEN arrayContains(actual, value, compare)
        ELSE IF isObject(actual) THEN objectContains(actual, value, compare)
        ELSE stringContains(actual, value)

toInclude(value, compareValues, message) ==
    LET msg == IF compareValues.k = "string" THEN compareValues.s ELSE message
    IN  Then(assert(isArray(actual) \/ isObject(actual) \/ TypeOf(actual) = "string",
                    "The \"actual\" argument in expect(actual).toInclude() must be an array, object, or a string",
                    <<>>),
             assert(Contains(value, compareValues), Or(msg, "Expected %s to include %s"),
                    <<actual, value>>))

\* toExclude that never looks at the comparator it was given.
toExcludeDefaultCompare(value, compareValues, message) ==
    LET msg == IF compareValues.k = "string" THEN compareValues.s ELSE message
    IN  Then(assert(isArray(actual) \/ isObject(actual) \/ TypeOf(actual) = "string",
                    "The \"actual\" argument in expect(actual).toExclude() must be an array, object, or a string",
                    <<>>),
             assert(~Contains(value, Omitted), Or(msg, "Expected %s to exclude %s"),
                    <<actual, value>>))

toExclude(value, compareValues, message) ==
    LET msg == IF compareValues.k = "string" THEN compareValues.s ELSE message
    IN  Then(assert(isArray(actual) \/ isObject(actual) \/ TypeOf(actual) = "string",
                    "The \"actual\" argument in expect(actual).toExclude() must be an array, object, or a string",
                    <<>>),
             assert(~Contains(value, compareValues), Or(msg, "Expected %s to exclude %s"),
                    <<actual, value>>))

toHaveBeenCalled(message) ==
    Then(assert(isSpy(actual),
                "The \"actual\" argument in expect(actual).toHaveBeenCalled() must be a spy",
                <<>>),
         assert(Len(calls) > 0, Or(message, "spy was not called"), <<>>))

\* toHaveBeenCalledWith comparing the argument lists element by element with ===.
toHaveBeenCalledWithIdentical(expectedArgs) ==
    Then(assert(isSpy(actual),
                "The \"actual\" argument in expect(actual).toHaveBeenCalledWith() must be a spy",
                <<>>),
         assert(\E i \in 1..Len(calls) :
                    /\ Len(calls[i]) = Len(expectedArgs)
                    /\ \A j \in 1..Len(expectedArgs) : StrictEq(calls[i][j], expectedArgs[j]),
                "spy was never called with %s", <<Arr(0, expectedArgs)>>))

toHaveBeenCalledWith(expectedArgs) ==
    Then(assert(isSpy(actual),
                "The \"actual\" argument in expect(actual).toHaveBeenCalledWith() must be a spy",
                <<>>),
         assert(\E i \in 1..Len(calls) : isEqual(Arr(0, calls[i]), Arr(0, expectedArgs)),
                "spy was never called with %s", <<Arr(0, expectedArgs)>>))

toNotHaveBeenCalled(message) ==
    Then(assert(isSpy(actual),
                "The \"actual\" argument in expect(actual).toNotHaveBeenCalled() must be a spy",
                <<>>),
         assert(Len(calls) = 0, Or(message, "spy was not supposed to be called"), <<>>))

\* ---------------------------------------------------------------- aliases

ClassMethods ==
    {"toExist", "toNotExist", "toBe", "toNotBe", "toEqual", "toNotEqual", "toThrow",
     "toNotThrow", "toBeA", "toNotBeA", "toMatch", "toNotMatch", "toBeLessThan",
     "toBeLessThanOrEqualTo", "toBeGreaterThan", "toBeGreaterThanOrEqualTo",
     "toInclude", "toExclude", "toHaveBeenCalled", "toHaveBeenCalledWith",
     "toNotHaveBeenCalled", "withContext", "withArgs"}

\* The alias table with one target copied from the line above it.
aliasesMiscopied ==
    << <<"toBeAn", "toBeA">>,
       <<"toNotBeAn", "toNotBeA">>,
       <<"toBeTruthy", "toExist">>,
       <<"toBeFalsy", "toNotExist">>,
       <<"toBeFewerThan", "toBeLessThan">>,
       <<"toBeMoreThan", "toBeLessThan">>,
       <<"toContain", "toInclude">>,
       <<"toNotContain", "toExclude">> >>

\* The alias table, in the order for-in visits it.
aliases ==
    << <<"toBeAn", "toBeA">>,
       <<"toNotBeAn", "toNotBeA">>,
       <<"toBeTruthy", "toExist">>,
       <<"toBeFalsy", "toNotExist">>,
       <<"toBeFewerThan", "toBeLessThan">>,
       <<"toBeMoreThan", "toBeGreaterThan">>,
       <<"toContain", "toInclude">>,
       <<"toNotContain", "toExclude">> >>

AliasNames == {aliases[i][1] : i \in 1..Len(aliases)}
AliasTarget(alias) == aliases[CHOOSE i \in 1..Len(aliases) : aliases[i][1] = alias][2]

RECURSIVE Bound(_)
\* Expectation.prototype after the first n aliases were bound: each method name
\* maps to the implementation it runs ("undefined" when there is none).
Bound(n) ==
    IF n = 0 THEN [name \in ClassMethods |-> name]
    ELSE LET before == Bound(n - 1)
             target == aliases[n][2]
             impl == IF target \in DOMAIN before THEN before[target] ELSE "undefined"
         IN  [name \in DOMAIN before \cup {aliases[n][1]} |->
                 IF name = aliases[n][1] THEN impl ELSE before[name]]

prototype == Bound(Len(aliases))

\* A call of the implementation a name is bound to; calling undefined is a TypeError.
Invoke(impl, value, compareValues, message) ==
    CASE impl = "toExist" -> toExist(message)
      [] impl = "toNotExist" -> toNotExist(message)
      [] impl = "toBeA" -> toBeA(value, message)
      [] impl = "toNotBeA" -> toNotBeA(value, message)
      [] impl = "toBeLessThan" -> toBeLessThan(value, message)
      [] impl = "toBeLessThanOrEqualTo" -> toBeLessThanOrEqualTo(value, message)
      [] impl = "toBeGreaterThan" -> toBeGreaterThan(value, message)
      [] impl = "toBeGreaterThanOrEqualTo" -> toBeGreaterThanOrEqualTo(value, message)
      [] impl = "toInclude" -> toInclude(value, compareValues, message)
      [] impl = "toExclude" -> toExclude(value, compareValues, message)
      [] OTHER -> [raised |-> TRUE, tpl |-> "TypeError: not a function", vals |-> <<>>,
                   showDiff |-> FALSE, actual |-> Absent, expected |-> Absent]

\* ---------------------------------------------------------------- inputs

Ab == Str(<<"a", "b">>)
ArrA == Arr(10, <<Num(1), Num(2)>>)
ArrB == Arr(11, <<Num(1), Num(2)>>)          \* equal to ArrA, another array
ObjA == Obj(20, <<"a", "b">>, <<Num(1), Num(2)>>)
ObjB == Obj(21, <<"b", "a">>, <<Num(2), Num(1)>>)  \* equal to ObjA, keys in another order
ReA == RegExp(30, <<"a">>)

Subjects ==
    {Undefined, Null, Num(0), Num(1), NaN, Str(<<>>), Ab, ArrA, ObjA, ReA,
     FnBoom, FnArgs, TheSpy}

Messages == {"", "custom message"}

\* (value, message) pairs: every value without a message, one with.
WithMessage(values, one) == (values \X {""}) \cup {<<one, "custom message">>}

IdentityInputs == WithMessage({Num(1), NaN, ArrA, ArrB, ObjB}, Num(1))
TypeInputs ==
    WithMessage({Str(Chars("number")), Str(Chars("array")), ObjectCtor, Num(1)},
                Str(Chars("string")))
PatternInputs == WithMessage({ReA, RegExp(31, <<"c">>), Ab}, ReA)
OrderInputs == WithMessage({Num(1), NaN, Ab}, Num(1)) \cup {<<Ab, "custom message">>}
ThrowInputs ==
    WithMessage({Undefined, Str(<<"b">>), Str(<<"c">>), ReA, ObjectCtor}, Undefined)
ContainInputs ==
    ({Num(2), Arr(12, <<Num(2), Num(1)>>), Arr(13, <<Num(1), Num(3)>>),
      Obj(22, <<"a">>, <<Num(1)>>), Str(<<"b">>)} \X {Omitted} \X {""})
    \cup {<<Num(2), Comparator("never"), "">>, <<ArrA, Comparator("strict"), "">>,
          <<Num(3), AsMessage("custom message"), "">>, <<Num(3), Omitted, "custom message">>}

\* The argument lists a caller passes to withArgs.
ArgLists ==
    {<<>>, <<Num(1)>>, <<Arr(40, <<Num(1)>>)>>, <<Arr(41, <<>>)>>,
     <<Num(1), Arr(40, <<Num(1)>>)>>}
Contexts == {ObjA}

\* What the spy had recorded when the wrapper was made, and what a caller
\* passes to toHaveBeenCalledWith.
SpyHistories == {<<>>, << <<Num(1), ArrA>>, <<Num(1)>> >>}
ExpectedArgs ==
    {<<>>, <<Num(1)>>, <<Num(1), ArrB>>, <<Num(1), ArrB, Num(1)>>, <<ArrB, Num(1)>>,
     <<Num(1), Num(1)>>}

\* ---------------------------------------------------------------- the wrapper

\* constructor(actual): the fields it writes.
constructor(subject) ==
    [actual |-> subject,
     context |-> IF isFunction(subject) THEN Null ELSE Absent,
     args |-> IF isFunction(subject) THEN Arr(0, <<>>) ELSE Absent]

\* The record of a call: the method, the argument list it was given (kept for
\* withArgs), what it raised, what it returned when it raised nothing, and the
\* invocations of the subject it made.
Call(method, list, err, returned, invocations) ==
    [method |-> method, list |-> list, err |-> err,
     ret |-> IF err.raised THEN "" ELSE returned, inv |-> invocations]

Init ==
    \E subject \in Subjects :
        /\ actual = constructor(subject).actual
        /\ context = constructor(subject).context
        /\ args = constructor(subject).args
        /\ calls \in (IF isSpy(subject) THEN SpyHistories ELSE {<<>>})
        /\ invoked = 0
        /\ asserted = 0
        /\ last = Call("constructor", <<>>, NoError, "this", <<>>)

\* A predicate that forgets its return statement.
PredicateWithoutReturn(method, err) ==
    /\ last' = Call(method, <<>>, err, "undefined", <<>>)
    /\ UNCHANGED <<actual, context, args, calls, invoked, asserted>>

\* A predicate that reads the wrapper and writes nothing.
Predicate(method, err) ==
    /\ last' = Call(method, <<>>, err, "this", <<>>)
    /\ UNCHANGED <<actual, context, args, calls, invoked, asserted>>

CallToExist == \E m \in Messages : Predicate("toExist", toExist(m))
CallToNotExist ==
    \E m \in Messages : Predicate("toNotExist", toNotExist(m))
CallToBe ==
    \E in \in IdentityInputs : Predicate("toBe", toBe(in[1], in[2]))
CallToNotBe ==
    \E in \in IdentityInputs :
        Predicate("toNotBe", toNotBe(in[1], in[2]))
CallToEqual ==
    \E in \in IdentityInputs :
        Predicate("toEqual", toEqual(in[1], in[2]))
CallToNotEqual ==
    \E in \in IdentityInputs :
        Predicate("toNotEqual", toNotEqual(in[1], in[2]))
CallToBeA ==
    \E in \in TypeInputs : Predicate("toBeA", toBeA(in[1], in[2]))
CallToNotBeA ==
    \E in \in TypeInputs :
        Predicate("toNotBeA", toNotBeA(in[1], in[2]))
CallToMatch ==
    \E in \in PatternInputs :
        Predicate("toMatch", toMatch(in[1], in[2]))
CallToNotMatch ==
    \E in \in PatternInputs :
        Predicate("toNotMatch", toNotMatch(in[1], in[2]))
CallToBeLessThan ==
    \E in \in OrderInputs :
        Predicate("toBeLessThan", toBeLessThan(in[1], in[2]))
CallToBeLessThanOrEqualTo ==
    \E in \in OrderInputs :
        Predicate("toBeLessThanOrEqualTo",
                  toBeLessThanOrEqualTo(in[1], in[2]))
CallToBeGreaterThan ==
    \E in \in OrderInputs :
        Predicate("toBeGreaterThan",
                  toBeGreaterThan(in[1], in[2]))
CallToBeGreaterThanOrEqualTo ==
    \E in \in OrderInputs :
        Predicate("toBeGreaterThanOrEqualTo",
                  toBeGreaterThanOrEqualTo(in[1], in[2]))
CallToInclude ==
    \E in \in ContainInputs :
        Predicate("toInclude", toInclude(in[1], in[2], in[3]))
CallToExclude ==
    \E in \in ContainInputs :
        Predicate("toExclude", toExclude(in[1], in[2], in[3]))
CallToHaveBeenCalled ==
    \E m \in Messages :
        Predicate("toHaveBeenCalled", toHaveBeenCalled(m))
CallToHaveBeenCalledWith ==
    \E expectedArgs \in ExpectedArgs :
        /\ last' = Call("toHaveBeenCalledWith", expectedArgs,
                        toHaveBeenCalledWith(expectedArgs), "this", <<>>)
        /\ UNCHANGED <<actual, context, args, calls, invoked, asserted>>
CallToNotHaveBeenCalled ==
    \E m \in Messages :
        Predicate("toNotHaveBeenCalled", toNotHaveBeenCalled(m))

CallToBeAn ==
    \E in \in TypeInputs :
        Predicate("toBeAn",
                  Invoke(prototype["toBeAn"], in[1], Omitted, in[2]))
CallToNotBeAn ==
    \E in \in TypeInputs :
        Predicate("toNotBeAn",
                  Invoke(prototype["toNotBeAn"], in[1], Omitted, in[2]))
CallToBeTruthy ==
    \E m \in Messages :
        Predicate("toBeTruthy",
                  Invoke(prototype["toBeTruthy"], Undefined, Omitted, m))
CallToBeFalsy ==
    \E m \in Messages :
        Predicate("toBeFalsy",
                  Invoke(prototype["toBeFalsy"], Undefined, Omitted, m))
CallToBeFewerThan ==
    \E in \in OrderInputs :
        Predicate("toBeFewerThan",
                  Invoke(prototype["toBeFewerThan"], in[1], Omitted, in[2]))
CallToBeMoreThan ==
    \E in \in OrderInputs :
        Predicate("toBeMoreThan",
                  Invoke(prototype["toBeMoreThan"], in[1], Omitted, in[2]))
CallToContain ==
    \E in \in ContainInputs :
        Predicate("toContain",
                  Invoke(prototype["toContain"], in[1], in[2], in[3]))
CallToNotContain ==
    \E in \in ContainInputs :
        Predicate("toNotContain",
                  Invoke(prototype["toNotContain"], in[1], in[2], in[3]))

\* ---------------------------------------------------------------- invocation

\* fn.apply(context, args): whether the call throws (the Error it throws has
\* the message ErrorMessage).
Throws(fn, argList) == fn = FnBoom \/ (fn = FnArgs /\ argList # <<>>)

\* The invocations of fn one call of functionThrows makes.
Applied(fn, binding, argList) == << [context |-> binding, args |-> argList] >>

\* functionThrows(fn, context, args, value): the call threw, and what it threw
\* is what value asks for.
functionThrows(fn, binding, argList, value) ==
    /\ Throws(fn, argList)
    /\ \/ value.k \in {"undefined", "null"}
       \/ isFunction(value) /\ value = ObjectCtor
       \/ isRegExp(value) /\ IndexOf(ErrorMessage, value.cs)
       \/ value.k = "string" /\ IndexOf(ErrorMessage, value.cs)

\* What the subject does to the world when invoked: a spy records the call.
Recorded(invocations) == [i \in 1..Len(invocations) |-> invocations[i].args]

ThrowAssertion(method, value, message, usage, wanted, fallback, invocations) ==
    IF ~isFunction(actual)
    THEN /\ last' = Call(method, <<>>, assert(FALSE, usage, <<actual>>), "this", <<>>)
         /\ UNCHANGED <<actual, context, args, calls, invoked, asserted>>
    ELSE /\ invoked + Len(invocations) <= MaxInvocations
         /\ invoked' = invoked + Len(invocations)
         /\ asserted' = asserted + 1
         /\ calls' = IF isSpy(actual) THEN calls \o Recorded(invocations) ELSE calls
         /\ last' = Call(method, <<>>,
                         assert(functionThrows(actual, context, args.xs, value) = wanted,
                                Or(message, fallback), <<actual, OrAnError(value)>>),
                         "this", invocations)
         /\ UNCHANGED <<actual, context, args>>

\* toThrow that calls the subject a second time.
toThrowRetrying(value, message) ==
    ThrowAssertion("toThrow", value, message,
        "The \"actual\" argument in expect(actual).toThrow() must be a function, %s was given",
        TRUE, "Expected %s to throw %s",
        Applied(actual, context, args.xs) \o Applied(actual, context, args.xs))

toThrow(value, message) ==
    ThrowAssertion("toThrow", value, message,
        "The \"actual\" argument in expect(actual).toThrow() must be a function, %s was given",
        TRUE, "Expected %s to throw %s", Applied(actual, context, args.xs))

toNotThrow(value, message) ==
    ThrowAssertion("toNotThrow", value, message,
        "The \"actual\" argument in expect(actual).toNotThrow() must be a function, %s was given",
        FALSE, "Expected %s to not throw %s", Applied(actual, context, args.xs))

\* withContext without its check of the subject.
withContextUnchecked(ctx) ==
    /\ context' = ctx
    /\ last' = Call("withContext", <<>>, NoError, "this", <<>>)
    /\ UNCHANGED <<actual, args, calls, invoked, asserted>>

withContext(ctx) ==
    LET e == assert(isFunction(actual),
                    "The \"actual\" argument in expect(actual).withContext() must be a function",
                    <<>>)
    IN  /\ context' = IF e.raised THEN context ELSE ctx
        /\ last' = Call("withContext", <<>>, e, "this", <<>>)
        /\ UNCHANGED <<actual, args, calls, invoked, asserted>>

RECURSIVE Concat(_, _)
\* base.concat(...items): concat appends the elements of an item that is an
\* array, and any other item itself.
Concat(base, items) ==
    IF items = <<>> THEN base
    ELSE Concat(IF isArray(items[1]) THEN base \o items[1].xs ELSE Append(base, items[1]),
                Tail(items))

withArgs(list) ==
    LET e == assert(isFunction(actual),
                    "The \"actual\" argument in expect(actual).withArgs() must be a function",
                    <<>>)
        writes == ~e.raised /\ Len(list) # 0
    IN  /\ writes => Len(Concat(args.xs, list)) <= MaxArgs
        /\ args' = IF writes THEN Arr(0, Concat(args.xs, list)) ELSE args
        /\ last' = Call("withArgs", list, e, "this", <<>>)
        /\ UNCHANGED <<actual, context, calls, invoked, asserted>>

\* ---------------------------------------------------------------- specification

Next ==
    \/ CallToExist
    \/ CallToNotExist
    \/ CallToBe
    \/ CallToNotBe
    \/ CallToEqual
    \/ CallToNotEqual
    \/ \E in \in ThrowInputs : toThrow(in[1], in[2])
    \/ \E in \in ThrowInputs : toNotThrow(in[1], in[2])
    \/ CallToBeA
    \/ CallToNotBeA
    \/ CallToMatch
    \/ CallToNotMatch
    \/ CallToBeLessThan
    \/ CallToBeLessThanOrEqualTo
    \/ CallToBeGreaterThan
    \/ CallToBeGreaterThanOrEqualTo
    \/ CallToInclude
    \/ CallToExclude
    \/ CallToHaveBeenCalled
    \/ CallToHaveBeenCalledWith
    \/ CallToNotHaveBeenCalled
    \/ \E ctx \in Contexts : withContext(ctx)
    \/ \E list \in ArgLists : withArgs(list)
    \/ CallToBeAn
    \/ CallToNotBeAn
    \/ CallToBeTruthy
    \/ CallToBeFalsy
    \/ CallToBeFewerThan
    \/ CallToBeMoreThan
    \/ CallToContain
    \/ CallToNotContain

Spec == Init /\ [][Next]_vars

\* ---------------------------------------------------------------- properties

NoPayload(e) == ~e.showDiff /\ e.actual = Absent /\ e.expected = Absent

\* C1: a failure raised by toEqual(v) carries showDiff = true, actual = the
\* subject and expected = v; a failure raised by any other method (predicates,
\* aliases, throw-assertions, withContext, withArgs) carries none of the three.
C1_DiffPayloadOnlyFromToEqual ==
    /\ \A in \in IdentityInputs :
          LET e == toEqual(in[1], in[2])
          IN  e.raised => e.showDiff /\ e.actual = actual /\ e.expected = in[1]
    /\ last.err.raised =>
          IF last.method = "toEqual"
          THEN /\ last.err.showDiff
               /\ last.err.actual = actual
               /\ last.err.expected = last.err.vals[2]
          ELSE NoPayload(last.err)

C1_Witness ==
    /\ actual = ObjA
    /\ last.method = "toEqual"
    /\ last.err.raised
    /\ last.err.expected = ArrB

Container(v) == isArray(v) \/ isObject(v) \/ TypeOf(v) = "string"

\* C2 as stated: for every subject and every input, toInclude passes exactly
\* when toExclude fails.
C2_ExcludeNegatesIncludeEverywhere ==
    \A in \in ContainInputs :
        toInclude(in[1], in[2], in[3]).raised # toExclude(in[1], in[2], in[3]).raised

\* C2 amended: on a subject that is an array, an object or a string, toInclude
\* passes exactly when toExclude fails, for every value, comparator and
\* message; on any other subject both raise their usage error.
C2_ExcludeNegatesIncludeOnContainers ==
    \A in \in ContainInputs :
        LET i == toInclude(in[1], in[2], in[3])
            x == toExclude(in[1], in[2], in[3])
        IN  IF Container(actual)
            THEN /\ i.raised # x.raised
                 /\ i.raised = ~Contains(in[1], in[2])
                 /\ (IF i.raised THEN i ELSE x).vals = <<actual, in[1]>>
            ELSE /\ i.raised /\ x.raised
                 /\ i.vals = <<>> /\ x.vals = <<>>

C2_Witness ==
    /\ actual = ArrA
    /\ last.method = "toExclude"
    /\ last.err.raised
    /\ last.err.vals = <<ArrA, Arr(12, <<Num(2), Num(1)>>)>>

\* C3: for every subject and value exactly one of toBe(value) and
\* toNotBe(value) raises; with subject and value both NaN it is toBe that
\* raises and toNotBe that passes.
C3_ToBeToNotBeComplement ==
    \A in \in IdentityInputs :
        /\ toBe(in[1], in[2]).raised # toNotBe(in[1], in[2]).raised
        /\ (actual = NaN /\ in[1] = NaN) =>
               toBe(in[1], in[2]).raised /\ ~toNotBe(in[1], in[2]).raised

C3_Witness ==
    /\ actual = NaN
    /\ last.method = "toBe"
    /\ last.err.raised
    /\ last.err.vals = <<NaN, NaN>>

\* What a step that is a throw-assertion does.
C4_ThrowStep ==
    (last'.method \in {"toThrow", "toNotThrow"}) =>
        IF isFunction(actual)
        THEN /\ invoked' = invoked + 1
             /\ last'.inv = << [context |-> context, args |-> args.xs] >>
        ELSE /\ invoked' = invoked
             /\ last'.inv = <<>>
             /\ last'.err.raised
             /\ last'.err.vals = <<actual>>

\* C4: a toThrow or toNotThrow call on a callable subject invokes the subject
\* exactly once, with the binding and the argument list the wrapper holds at
\* the call; on a non-callable subject it raises the usage error and invokes
\* nothing; so the subject was invoked once per throw-assertion made on it.
C4_InvokedOncePerThrowAssertion == [](invoked = asserted) /\ [][C4_ThrowStep]_vars

C4_Witness ==
    /\ actual = FnArgs
    /\ invoked = 2
    /\ asserted = 2
    /\ last.method = "toThrow"
    /\ ~last.err.raised
    /\ last.inv = << [context |-> ObjA, args |-> <<Num(1)>>] >>

OrderingMethods ==
    {"toBeLessThan", "toBeLessThanOrEqualTo", "toBeGreaterThan", "toBeGreaterThanOrEqualTo"}

OrderingUsageMessages ==
    {"The \"actual\" argument in expect(actual).toBeLessThan() must be a number",
     "The \"value\" argument in toBeLessThan(value) must be a number",
     "The \"actual\" argument in expect(actual).toBeLessThanOrEqualTo() must be a number",
     "The \"value\" argument in toBeLessThanOrEqualTo(value) must be a number",
     "The \"actual\" argument in expect(actual).toBeGreaterThan() must be a number",
     "The \"value\" argument in toBeGreaterThan(value) must be a number",
     "The \"actual\" argument in expect(actual).toBeGreaterThanOrEqualTo() must be a number",
     "The \"value\" argument in toBeGreaterThanOrEqualTo(value) must be a number"}

\* C5: each ordering predicate raises its usage error whenever the subject or
\* the argument is not a number, whatever message the caller supplied; it
\* raises the failure of the comparison only when both are numbers.
C5_OrderingUsageErrors ==
    \A method \in OrderingMethods : \A in \in OrderInputs :
        LET e == Invoke(method, in[1], Omitted, in[2])
            numbers == TypeOf(actual) = "number" /\ TypeOf(in[1]) = "number"
        IN  /\ ~numbers => e.raised /\ e.tpl \in OrderingUsageMessages /\ e.vals = <<>>
            /\ numbers /\ e.raised =>
                   /\ e.tpl \notin OrderingUsageMessages
                   /\ in[2] # "" => e.tpl = in[2]
                   /\ e.vals = <<actual, in[1]>>

C5_Witness ==
    /\ actual = Num(1)
    /\ last.method = "toBeGreaterThan"
    /\ last.err.raised
    /\ last.err.tpl = "The \"value\" argument in toBeGreaterThan(value) must be a number"

\* Two argument lists are equal element for element and length for length.
SameArguments(recorded, expected) ==
    /\ Len(recorded) = Len(expected)
    /\ \A j \in 1..Len(expected) : isEqual(recorded[j], expected[j])

\* What toHaveBeenCalledWith raises, against the call record.
C6_Matches ==
    \A expectedArgs \in ExpectedArgs :
        LET e == toHaveBeenCalledWith(expectedArgs)
        IN  IF isSpy(actual)
            THEN e.raised = ~(\E i \in 1..Len(calls) : SameArguments(calls[i], expectedArgs))
            ELSE /\ e.raised
                 /\ e.tpl = "The \"actual\" argument in expect(actual).toHaveBeenCalledWith() must be a spy"

\* C6: on a spy, toHaveBeenCalledWith(e1..en) passes exactly when some recorded
\* call has n arguments that deep-equal e1..en in order; on any other subject
\* it raises its usage error; and it leaves the call record as it was.
C6_CalledWith ==
    /\ []C6_Matches
    /\ [][last'.method = "toHaveBeenCalledWith" => calls' = calls]_vars

C6_Witness ==
    /\ isSpy(actual)
    /\ last.method = "toHaveBeenCalledWith"
    /\ last.list = <<Num(1), ArrB>>
    /\ ~last.err.raised
    /\ Len(calls) = 3

\* C7: the eight aliases are bound to the implementations of toBeA, toNotBeA,
\* toExist, toNotExist, toBeLessThan, toBeGreaterThan, toInclude and toExclude:
\* each gives the outcome and the failure of its target on the same inputs,
\* every target is a method of the class, and no target is an alias.
C7_AliasesBound ==
    /\ AliasNames = {"toBeAn", "toNotBeAn", "toBeTruthy", "toBeFalsy", "toBeFewerThan",
                     "toBeMoreThan", "toContain", "toNotContain"}
    /\ \A alias \in AliasNames :
          /\ AliasTarget(alias) \in ClassMethods
          /\ AliasTarget(alias) \notin AliasNames
          /\ prototype[alias] = prototype[AliasTarget(alias)]
    /\ \A in \in TypeInputs :
          /\ Invoke(prototype["toBeAn"], in[1], Omitted, in[2]) = toBeA(in[1], in[2])
          /\ Invoke(prototype["toNotBeAn"], in[1], Omitted, in[2]) = toNotBeA(in[1], in[2])
    /\ \A m \in Messages :
          /\ Invoke(prototype["toBeTruthy"], Undefined, Omitted, m) = toExist(m)
          /\ Invoke(prototype["toBeFalsy"], Undefined, Omitted, m) = toNotExist(m)
    /\ \A in \in OrderInputs :
          /\ Invoke(prototype["toBeFewerThan"], in[1], Omitted, in[2])
                = toBeLessThan(in[1], in[2])
          /\ Invoke(prototype["toBeMoreThan"], in[1], Omitted, in[2])
                = toBeGreaterThan(in[1], in[2])
    /\ \A in \in ContainInputs :
          /\ Invoke(prototype["toContain"], in[1], in[2], in[3])
                = toInclude(in[1], in[2], in[3])
          /\ Invoke(prototype["toNotContain"], in[1], in[2], in[3])
                = toExclude(in[1], in[2], in[3])
    /\ (last.method = "toBeMoreThan") =>
          \E in \in OrderInputs : last.err = toBeGreaterThan(in[1], in[2])
    /\ (last.method = "toNotContain") =>
          \E in \in ContainInputs : last.err = toExclude(in[1], in[2], in[3])

C7_Witness ==
    /\ actual = Num(1)
    /\ last.method = "toBeMoreThan"
    /\ last.err.raised
    /\ last.err.tpl = "Expected %s to be greater than %s"
    /\ last.err.vals = <<Num(1), Num(1)>>

\* What every step keeps.
C8_Step ==
    /\ actual' = actual
    /\ ~last'.err.raised => last'.ret = "this"
    /\ context' # context => last'.method = "withContext"
    /\ args' # args => last'.method = "withArgs"

\* C8: no call changes the subject; a call that raises nothing returns the
\* wrapper; only withContext changes the binding and only withArgs changes
\* the argument list.
C8_PredicatesReturnThisAndWriteNothing == [][C8_Step]_vars

C8_Witness ==
    /\ actual = FnArgs
    /\ context = ObjA
    /\ args = Arr(0, <<Num(1)>>)
    /\ last.method = "toExist"
    /\ ~last.err.raised
    /\ last.ret = "this"

\* C9 as stated: withArgs(a1..an) on a callable subject makes the argument
\* list the previous list followed by a1..an, each kept as one element.
C9_WithArgsAppendsEachArgument ==
    [][(last'.method = "withArgs" /\ isFunction(actual)) =>
           args'.xs = args.xs \o last'.list]_vars

\* C10: a wrapper around a non-callable subject never has a binding or an
\* argument list, and withContext and withArgs on it raise; a wrapper around a
\* callable subject has binding null and an empty argument list right after
\* construction.
C10_NoContextForNonCallable ==
    /\ ~isFunction(actual) =>
          /\ context = Absent
          /\ args = Absent
          /\ last.method \in {"withContext", "withArgs"} => last.err.raised
    /\ (isFunction(actual) /\ last.method = "constructor") =>
          context = Null /\ args = Arr(0, <<>>)

C10_Witness ==
    /\ actual = Ab
    /\ last.method = "withArgs"
    /\ last.list = <<Num(1)>>
    /\ last.err.raised
    /\ context = Absent
    /\ args = Absent

====
